---- MODULE Spec2Model ----
(***************************************************************************)
(* Model of raindrop-io-mcp-server (main.go): the line-oriented JSON-RPC   *)
(* loop of main(), its dispatch on method and tool name, the two tool      *)
(* handlers, the upstream client MakeRequest and the encoding of the       *)
(* response line.                                                          *)
(*                                                                         *)
(* JSON texts are modelled as tagged values (t = "absent", "invalid",      *)
(* "null", "num", "float", "str", "arr", "obj"); encoding/json's Unmarshal *)
(* is modelled field by field on these values.  Formatted strings          *)
(* (fmt.Sprintf) are sequences of pieces.                                  *)
(***************************************************************************)
EXTENDS Integers, Sequences, FiniteSets, TLC

\* ------------------------------------------------------------------ bounds
\* Number of input lines the scanner hands to the loop before end of input.
MaxLines == 2
\* Longest item list of an upstream search reply.
MaxItems == 2

\* -------------------------------------------------------------- JSON values
\* A key that is not present in an object, or an empty byte slice (a nil
\* json.RawMessage).
Absent == [t |-> "absent"]
\* Text that is not JSON at all (the empty line included).
JInvalid == [t |-> "invalid"]
JNull == [t |-> "null"]
JNum(n) == [t |-> "num", n |-> n]
\* A number that is no integer, such as 1.5.
JFloat == [t |-> "float"]
JStr(s) == [t |-> "str", s |-> s]
JArr(a) == [t |-> "arr", a |-> a]
\* m is a function from the keys that are present to their values.
JObj(m) == [t |-> "obj", m |-> m]
EmptyMap == [k \in {} |-> Absent]

Field(o, k) == IF k \in DOMAIN o.m THEN o.m[k] ELSE Absent

\* ------------------------------------------------------------------ errors
\* A formatted string is a sequence of pieces: a literal of the format, the
\* text of a %s or %v argument, the digits of a %d argument.
L(s) == [lit |-> s]
V(s) == [val |-> s]
D(n) == [num |-> n]

\* A Go error is its text; NoErr is the nil error.
NoErr == <<>>
ErrSyntax == <<L("invalid character looking for beginning of value")>>
ErrEOF == <<L("unexpected end of JSON input")>>
ErrType == <<L("json: cannot unmarshal value into Go value")>>
ErrNet == <<L("dial tcp: connection refused")>>

\* --------------------------------------------------- encoding/json decoding
\* Decoding one JSON value into a Go string field: a key that is absent and
\* a null leave the zero value, a string sets it, anything else is a type
\* error.
DecString(v) ==
    CASE v.t \in {"absent", "null"} -> [err |-> NoErr, val |-> ""]
      [] v.t = "str" -> [err |-> NoErr, val |-> v.s]
      [] OTHER -> [err |-> ErrType, val |-> ""]

\* Mutant of DecInt: a value of another type is taken as 0.
DecIntLenient(v) ==
    CASE v.t = "num" -> [err |-> NoErr, val |-> v.n]
      [] OTHER -> [err |-> NoErr, val |-> 0]

\* ... into a Go int field: only an integer number is accepted.
DecInt(v) ==
    CASE v.t \in {"absent", "null"} -> [err |-> NoErr, val |-> 0]
      [] v.t = "num" -> [err |-> NoErr, val |-> v.n]
      [] OTHER -> [err |-> ErrType, val |-> 0]

\* A Go []string: the nil slice, or a slice (which may be empty).
NilSlice == [nil |-> TRUE, s |-> <<>>]
Slice(s) == [nil |-> FALSE, s |-> s]

\* ... into a Go []string field.
DecStrings(v) ==
    CASE v.t \in {"absent", "null"} -> [err |-> NoErr, val |-> NilSlice]
      [] v.t = "arr" ->
           IF \A i \in 1..Len(v.a) : v.a[i].t \in {"str", "null"}
           THEN [err |-> NoErr,
                 val |-> Slice([i \in 1..Len(v.a) |-> DecString(v.a[i]).val])]
           ELSE [err |-> ErrType, val |-> NilSlice]
      [] OTHER -> [err |-> ErrType, val |-> NilSlice]

\* ... into a json.RawMessage field: the bytes of any value are kept as they
\* are, a null included; an absent key leaves the nil slice.
DecRaw(v) == v

\* The outcome of json.Unmarshal on a struct: the error of the document
\* itself, else the first error among its fields.
StructErr(v, fieldErrs) ==
    CASE v.t = "invalid" -> ErrSyntax
      [] v.t = "absent" -> ErrEOF
      [] v.t = "null" -> NoErr
      [] v.t = "obj" ->
           IF \E i \in 1..Len(fieldErrs) : fieldErrs[i] # NoErr
           THEN ErrType ELSE NoErr
      [] OTHER -> ErrType

\* Only an object has fields to read; on null the struct keeps zero values.
FieldOf(v, k) == IF v.t = "obj" THEN Field(v, k) ELSE Absent

\* json.Unmarshal([]byte(line), &req) with req a Request.
UnmarshalRequest(v) ==
    LET j == DecString(FieldOf(v, "jsonrpc"))
        i == DecInt(FieldOf(v, "id"))
        m == DecString(FieldOf(v, "method"))
    IN [err |-> StructErr(v, <<j.err, i.err, m.err>>),
        val |-> [JSONRPC |-> j.val, ID |-> i.val, Method |-> m.val,
                 Params |-> DecRaw(FieldOf(v, "params"))]]

\* json.Unmarshal(req.Params, &callReq) with callReq a CallToolRequest.
UnmarshalCallToolRequest(v) ==
    LET n == DecString(FieldOf(v, "name"))
    IN [err |-> StructErr(v, <<n.err>>),
        val |-> [Name |-> n.val,
                 Arguments |-> DecRaw(FieldOf(v, "arguments"))]]

\* json.Unmarshal(callReq.Arguments, &createArgs).
UnmarshalCreateBookmarkArgs(v) ==
    LET u == DecString(FieldOf(v, "url"))
        ti == DecString(FieldOf(v, "title"))
        tg == DecStrings(FieldOf(v, "tags"))
        c == DecInt(FieldOf(v, "collection"))
    IN [err |-> StructErr(v, <<u.err, ti.err, tg.err, c.err>>),
        val |-> [URL |-> u.val, Title |-> ti.val, Tags |-> tg.val,
                 Collection |-> c.val]]

\* json.Unmarshal(callReq.Arguments, &searchArgs).
UnmarshalSearchBookmarksArgs(v) ==
    LET q == DecString(FieldOf(v, "query"))
        tg == DecStrings(FieldOf(v, "tags"))
    IN [err |-> StructErr(v, <<q.err, tg.err>>),
        val |-> [Query |-> q.val, Tags |-> tg.val]]

\* ---------------------------------------------------------- schema registry
Prop(type, description) ==
    JObj([type |-> JStr(type), description |-> JStr(description)])

ArrayProp(description) ==
    JObj([type |-> JStr("array"), description |-> JStr(description),
          items |-> JObj([type |-> JStr("string")])])

createBookmarkSchema ==
    JObj([type |-> JStr("object"),
          properties |-> JObj(
              [url |-> Prop("string", "URL to bookmark"),
               title |-> Prop("string", "Title for the bookmark (optional)"),
               tags |-> ArrayProp("Tags for the bookmark (optional)"),
               collection |->
                   Prop("number", "Collection ID to save to (optional)")]),
          required |-> JArr(<<JStr("url")>>)])

searchBookmarksSchema ==
    JObj([type |-> JStr("object"),
          properties |-> JObj(
              [query |-> Prop("string", "Search query"),
               tags |-> ArrayProp("Filter by tags (optional)")]),
          required |-> JArr(<<JStr("query")>>)])

\* Mutant of createJSONSchema: one schema is stored under a misspelt key.
createJSONSchemaMisspelt ==
    ("create-bookmark" :> createBookmarkSchema)
        @@ ("search-bookmark" :> searchBookmarksSchema)

\* The map createJSONSchema returns: tool name -> schema.
createJSONSchema ==
    ("create-bookmark" :> createBookmarkSchema)
        @@ ("search-bookmarks" :> searchBookmarksSchema)

\* schemas[name]: a key the map does not hold reads as nil, which marshals
\* to null.
SchemaOf(sch, name) == IF name \in DOMAIN sch THEN sch[name] ELSE JNull

\* ------------------------------------------------------- response envelopes
\* A nil *ErrorResponse.
NilError == [nil |-> TRUE]
ErrorResponse(code, message) ==
    [nil |-> FALSE, Code |-> code, Message |-> message]

\* Mutant of NewResponse: the id of the request is not copied.
NewResponseNoID(req) ==
    [JSONRPC |-> "2.0", ID |-> 0, Result |-> Absent, Error |-> NilError]

\* var resp Response; resp.JSONRPC = "2.0"; resp.ID = req.ID
NewResponse(req) ==
    [JSONRPC |-> "2.0", ID |-> req.ID, Result |-> Absent, Error |-> NilError]

WithResult(resp, result) == [resp EXCEPT !.Result = result]
WithError(resp, code, message) ==
    [resp EXCEPT !.Error = ErrorResponse(code, message)]

\* mustMarshal(CallToolResponse{Content: []ContentBlock{{"text", text}}})
CallToolResponse(text) ==
    JObj([content |-> JArr(<<JObj([type |-> JStr("text"),
                                   text |-> JStr(text)])>>)])

\* The tool descriptors of the mcp.listTools branch.
ToolList(sch) ==
    <<JObj([name |-> JStr("create-bookmark"),
            description |-> JStr("Create a new bookmark in Raindrop.io"),
            inputSchema |-> SchemaOf(sch, "create-bookmark")]),
      JObj([name |-> JStr("search-bookmarks"),
            description |-> JStr("Search through your Raindrop.io bookmarks"),
            inputSchema |-> SchemaOf(sch, "search-bookmarks")])>>

\* mustMarshal(ListToolsResponse{Tools: tools})
ListToolsResponse(sch) == JObj([tools |-> JArr(ToolList(sch))])

\* writer.Encode(resp): the JSON object of the output line.  result and
\* error are omitempty: an empty RawMessage and a nil pointer are left out.
EncodeResponse(resp) ==
    JObj(("jsonrpc" :> JStr(resp.JSONRPC)) @@ ("id" :> JNum(resp.ID))
         @@ (IF resp.Result.t # "absent"
             THEN "result" :> resp.Result ELSE EmptyMap)
         @@ (IF ~resp.Error.nil
             THEN "error" :> JObj([code |-> JNum(resp.Error.Code),
                                   message |-> JStr(resp.Error.Message)])
             ELSE EmptyMap))

\* ------------------------------------------------------------ tool handlers
\* strings.Join(elems, sep) as pieces.
RECURSIVE Join(_, _)
Join(elems, sep) ==
    IF Len(elems) = 0 THEN <<>>
    ELSE IF Len(elems) = 1 THEN <<V(elems[1])>>
    ELSE <<V(elems[1]), L(sep)>> \o Join(Tail(elems), sep)

\* json.Marshal of a []string inside the request body.
MarshalStrings(sl) ==
    IF sl.nil THEN JNull
    ELSE JArr([i \in 1..Len(sl.s) |-> JStr(sl.s[i])])

\* Mutant of CollectionRef: the default collection is left out.
CollectionRefOmitted(collection) ==
    IF collection # 0
    THEN JObj("$id" :> JNum(collection))
    ELSE Absent

\* The collection reference of the create-bookmark body.
CollectionRef(collection) ==
    IF collection # 0
    THEN JObj("$id" :> JNum(collection))
    ELSE JObj("$id" :> JNum(0))

\* The body of the create-bookmark upstream request.
CreateBody(args) ==
    JObj([link |-> JStr(args.URL), title |-> JStr(args.Title),
          tags |-> MarshalStrings(args.Tags),
          collection |-> CollectionRef(args.Collection)])

\* url.Values of the search: search=<query>, and tags=<joined> when there
\* are tags; Encode() writes the keys in sorted order.
SearchParams(args) ==
    <<[key |-> "search", value |-> <<V(args.Query)>>]>>
    \o (IF Len(args.Tags.s) > 0
        THEN <<[key |-> "tags", value |-> Join(args.Tags.s, ",")]>>
        ELSE <<>>)

\* An upstream request as MakeRequest receives it.
NoCall == [method |-> "none"]
UpstreamCall(tool, endpoint, method, body, params) ==
    [tool |-> tool, method |-> method, endpoint |-> endpoint,
     params |-> params, body |-> body, auth |-> <<>>, contentType |-> ""]

\* The part of one loop iteration between the decode of the line and the
\* first blocking call: either the response is ready, or an upstream request
\* is issued.
Ready(resp) == [call |-> NoCall, resp |-> resp]
Calling(resp, call) == [call |-> call, resp |-> resp]

\* Mutant of CreateBookmark: the error of the decode is dropped.
CreateBookmarkLax(resp, arguments) ==
    LET d == UnmarshalCreateBookmarkArgs(arguments)
    IN IF d.val.URL = ""
       THEN Ready(WithError(resp, -32602, <<L("URL is required")>>))
       ELSE Calling(resp, UpstreamCall("create-bookmark", "/raindrop",
                                       "POST", CreateBody(d.val), <<>>))

\* Mutant of CreateBookmark: the URL is not checked before the request.
CreateBookmarkUnchecked(resp, arguments) ==
    LET d == UnmarshalCreateBookmarkArgs(arguments)
    IN IF d.err # NoErr
       THEN Ready(WithError(resp, -32602,
                            <<L("Invalid arguments: ")>> \o d.err))
       ELSE Calling(resp, UpstreamCall("create-bookmark", "/raindrop",
                                       "POST", CreateBody(d.val), <<>>))

CreateBookmark(resp, arguments) ==
    LET d == UnmarshalCreateBookmarkArgs(arguments)
    IN IF d.err # NoErr
       THEN Ready(WithError(resp, -32602,
                            <<L("Invalid arguments: ")>> \o d.err))
       ELSE IF d.val.URL = ""
       THEN Ready(WithError(resp, -32602, <<L("URL is required")>>))
       ELSE Calling(resp, UpstreamCall("create-bookmark", "/raindrop",
                                       "POST", CreateBody(d.val), <<>>))

\* Mutant of SearchBookmarks: the query is not checked before the request.
SearchBookmarksUnchecked(resp, arguments) ==
    LET d == UnmarshalSearchBookmarksArgs(arguments)
    IN IF d.err # NoErr
       THEN Ready(WithError(resp, -32602,
                            <<L("Invalid arguments: ")>> \o d.err))
       ELSE Calling(resp, UpstreamCall("search-bookmarks", "/raindrops/0",
                                       "GET", Absent, SearchParams(d.val)))

SearchBookmarks(resp, arguments) ==
    LET d == UnmarshalSearchBookmarksArgs(arguments)
    IN IF d.err # NoErr
       THEN Ready(WithError(resp, -32602,
                            <<L("Invalid arguments: ")>> \o d.err))
       ELSE IF d.val.Query = ""
       THEN Ready(WithError(resp, -32602, <<L("Query is required")>>))
       ELSE Calling(resp, UpstreamCall("search-bookmarks", "/raindrops/0",
                                       "GET", Absent, SearchParams(d.val)))

\* Mutant of UnknownTool: the message does not name the tool.
UnknownToolUnnamed(resp, name) ==
    Ready(WithError(resp, -32601, <<L("Unknown tool")>>))

\* Mutant of UnknownTool: the default branch sets no error.
UnknownToolSilent(resp, name) == Ready(resp)

UnknownTool(resp, name) ==
    Ready(WithError(resp, -32601, <<L("Unknown tool: "), V(name)>>))

\* case "mcp.callTool"
CallTool(resp, params) ==
    LET d == UnmarshalCallToolRequest(params)
    IN IF d.err # NoErr
       THEN Ready(WithError(resp, -32602,
                            <<L("Invalid params: ")>> \o d.err))
       ELSE CASE d.val.Name = "create-bookmark" ->
                     CreateBookmark(resp, d.val.Arguments)
              [] d.val.Name = "search-bookmarks" ->
                     SearchBookmarks(resp, d.val.Arguments)
              [] OTHER -> UnknownTool(resp, d.val.Name)

\* Mutant of MethodNotFound: the code of invalid params is used.
MethodNotFoundAsInvalid(resp, method) ==
    Ready(WithError(resp, -32602, <<L("Method not found: "), V(method)>>))

MethodNotFound(resp, method) ==
    Ready(WithError(resp, -32601, <<L("Method not found: "), V(method)>>))

\* switch req.Method
Dispatch(req, sch) ==
    LET resp == NewResponse(req)
    IN CASE req.Method = "mcp.listTools" ->
                Ready(WithResult(resp, ListToolsResponse(sch)))
         [] req.Method = "mcp.callTool" -> CallTool(resp, req.Params)
         [] OTHER -> MethodNotFound(resp, req.Method)

\* ---------------------------------------------------------- upstream client
\* What the network hands back to client.Do: a transport failure, or a
\* status line with a body.
NetFailure == [k |-> "neterr"]
HttpReply(code, status, body) ==
    [k |-> "http", code |-> code, status |-> status, body |-> body]

\* json.NewDecoder(resp.Body).Decode(&result) with result a
\* map[string]interface{}: null leaves the nil map, an object fills it.
DecodeMap(body) ==
    CASE body.t = "invalid" -> [err |-> ErrSyntax, val |-> EmptyMap]
      [] body.t = "absent" -> [err |-> <<L("EOF")>>, val |-> EmptyMap]
      [] body.t = "null" -> [err |-> NoErr, val |-> EmptyMap]
      [] body.t = "obj" -> [err |-> NoErr, val |-> body.m]
      [] OTHER -> [err |-> ErrType, val |-> EmptyMap]

\* Mutant of MakeRequest: the status code is not looked at.
MakeRequestAnyStatus(reply) ==
    IF reply.k = "neterr" THEN [err |-> ErrNet, val |-> EmptyMap]
    ELSE DecodeMap(reply.body)

\* RaindropClient.MakeRequest, from the reply on: (result, err).
MakeRequest(reply) ==
    IF reply.k = "neterr" THEN [err |-> ErrNet, val |-> EmptyMap]
    ELSE IF reply.code < 200 \/ reply.code >= 300
    THEN [err |-> <<L("Raindrop API error: "), V(reply.status)>>,
          val |-> EmptyMap]
    ELSE DecodeMap(reply.body)

\* m[k] of a map[string]interface{}.
MapGet(m, k) == IF k \in DOMAIN m THEN m[k] ELSE Absent

\* fmt's %s of an interface{} value.
FmtS(v) ==
    CASE v.t = "str" -> V(v.s)
      [] v.t \in {"absent", "null"} -> V("%!s(<nil>)")
      [] OTHER -> V("%!s(BADVERB)")

\* v.(string) with the zero value on failure.
AsString(v) == IF v.t = "str" THEN v.s ELSE ""

\* The strings among bookmark["tags"], when that is a list.
RECURSIVE TagList(_)
TagList(a) ==
    IF Len(a) = 0 THEN <<>>
    ELSE (IF a[1].t = "str" THEN <<a[1].s>> ELSE <<>>) \o TagList(Tail(a))

TagsStr(bookmark) ==
    LET tags == MapGet(bookmark, "tags")
        tagList == IF tags.t = "arr" THEN TagList(tags.a) ELSE <<>>
    IN IF Len(tagList) > 0 THEN Join(tagList, ", ") ELSE <<L("No tags")>>

\* One pass of the loop over items: what it appends to formattedResults.
ItemBlock(item) ==
    IF item.t # "obj" THEN <<>>
    ELSE <<L("\nTitle: "), V(AsString(MapGet(item.m, "title"))),
           L("\nURL: "), V(AsString(MapGet(item.m, "link"))),
           L("\nTags: ")>> \o TagsStr(item.m) \o <<L("\n---")>>

RECURSIVE FormatResults(_)
FormatResults(items) ==
    IF Len(items) = 0 THEN <<>>
    ELSE ItemBlock(items[1]) \o FormatResults(Tail(items))

ResponseText(items) ==
    IF Len(items) > 0
    THEN <<L("Found "), D(Len(items)), L(" bookmarks:")>>
         \o FormatResults(items)
    ELSE <<L("No bookmarks found matching your search.")>>

InternalError(resp, err) ==
    WithError(resp, -32603, <<L("Internal error: ")>> \o err)

\* create-bookmark, from the return of MakeRequest on.
CreateBookmarkDone(resp, reply) ==
    LET r == MakeRequest(reply)
    IN IF r.err # NoErr THEN InternalError(resp, r.err)
       ELSE WithResult(resp, CallToolResponse(
                <<L("Bookmark created successfully: "),
                  FmtS(MapGet(r.val, "link"))>>))

\* Mutant of SearchBookmarksDone: a payload without an item list counts as
\* an empty list.
SearchBookmarksDoneLenient(resp, reply) ==
    LET r == MakeRequest(reply)
        items == MapGet(r.val, "items")
    IN IF r.err # NoErr THEN InternalError(resp, r.err)
       ELSE IF items.t # "arr"
       THEN WithResult(resp, CallToolResponse(ResponseText(<<>>)))
       ELSE WithResult(resp, CallToolResponse(ResponseText(items.a)))

\* search-bookmarks, from the return of MakeRequest on.
SearchBookmarksDone(resp, reply) ==
    LET r == MakeRequest(reply)
        items == MapGet(r.val, "items")
    IN IF r.err # NoErr THEN InternalError(resp, r.err)
       ELSE IF items.t # "arr"
       THEN WithError(resp, -32603, <<L("Unable to parse results")>>)
       ELSE WithResult(resp, CallToolResponse(ResponseText(items.a)))

\* ------------------------------------------------------------------ inputs
\* A key with its value, or nothing when the key is left out.
Opt(k, v) == IF v = Absent THEN EmptyMap ELSE (k :> v)

ExampleURL == JStr("https://example.com")

\* The arguments documents sent to create-bookmark.
CreateArgDocs ==
    {Absent, JNull, JStr("x")}
    \cup {JObj(Opt("url", u) @@ Opt("collection", c)) :
            u \in {Absent, JStr(""), ExampleURL, JNum(1)},
            c \in {Absent, JNum(0), JNum(5), JStr("5")}}
    \cup {JObj([url |-> ExampleURL, title |-> JStr("T"),
                tags |-> JArr(<<JStr("a"), JStr("b")>>),
                collection |-> JNum(5)]),
          JObj([url |-> ExampleURL, tags |-> JArr(<<JNum(1)>>)])}

\* The arguments documents sent to search-bookmarks.
SearchArgDocs ==
    {Absent, JNull, JArr(<<>>)}
    \cup {JObj(Opt("query", q) @@ Opt("tags", t)) :
            q \in {Absent, JStr(""), JStr("q"), JNum(1)},
            t \in {Absent, JArr(<<JStr("a"), JStr("b")>>)}}

\* The params documents of mcp.callTool lines.
CallParamDocs ==
    {Absent, JNull, JStr("x")}
    \cup {JObj(Opt("name", n) @@ Opt("arguments", a)) :
            n \in {Absent, JStr(""), JStr("delete-bookmark"), JNum(1)},
            a \in {Absent, JObj([url |-> ExampleURL])}}
    \cup {JObj(("name" :> JStr("create-bookmark")) @@ Opt("arguments", a)) :
            a \in CreateArgDocs}
    \cup {JObj(("name" :> JStr("search-bookmarks")) @@ Opt("arguments", a)) :
            a \in SearchArgDocs}

Envelope(id, method, params) ==
    JObj(("jsonrpc" :> JStr("2.0")) @@ Opt("id", id)
         @@ Opt("method", method) @@ Opt("params", params))

\* Identifiers that decode into the int field.
GoodIds == {Absent, JNum(0), JNum(1)}

\* The input lines offered to the scanner.
Lines ==
    {JInvalid, JNull, JArr(<<>>), JObj(EmptyMap)}
    \cup {Envelope(i, JStr("mcp.callTool"), p) :
            i \in GoodIds, p \in CallParamDocs}
    \cup {Envelope(i, JStr("mcp.listTools"), p) :
            i \in GoodIds, p \in {Absent, JObj(EmptyMap), JStr("x")}}
    \cup {Envelope(i, m, p) :
            i \in GoodIds,
            m \in {Absent, JNull, JStr(""), JStr("mcp.other")},
            p \in {Absent,
                   JObj([name |-> JStr("create-bookmark"),
                         arguments |-> JObj([url |-> ExampleURL])])}}
    \cup {Envelope(JStr("1"), JStr("mcp.listTools"), Absent),
          Envelope(JFloat, JStr("mcp.listTools"), Absent),
          Envelope(JNull, JStr("mcp.listTools"), Absent),
          Envelope(JNum(1), JNum(1), Absent),
          JObj([jsonrpc |-> JNum(2), id |-> JNum(1),
                method |-> JStr("mcp.listTools")])}

\* The items an upstream search reply may list.
ItemDocs ==
    {JNum(1),
     JObj(EmptyMap),
     JObj([title |-> JStr("T"), link |-> JStr("https://a.example"),
           tags |-> JArr(<<JStr("a"), JStr("b")>>)]),
     JObj([title |-> JNum(3), link |-> JStr("https://b.example"),
           tags |-> JArr(<<JNum(2)>>)])}

RECURSIVE SeqsUpTo(_, _)
SeqsUpTo(S, n) ==
    IF n = 0 THEN {<<>>}
    ELSE LET shorter == SeqsUpTo(S, n - 1)
         IN shorter \cup {Append(q, x) : q \in shorter, x \in S}

\* The bodies of upstream 2xx replies.
Bodies ==
    {JInvalid, Absent, JNull, JArr(<<>>), JObj(EmptyMap),
     JObj([link |-> ExampleURL]), JObj([link |-> JNum(1)]),
     JObj([items |-> JStr("x")]), JObj([items |-> JNull])}
    \cup {JObj([items |-> JArr(a)]) : a \in SeqsUpTo(ItemDocs, MaxItems)}

\* What an upstream call may come back with.
Replies ==
    {NetFailure,
     HttpReply(199, "199 Status", JObj(EmptyMap)),
     HttpReply(300, "300 Multiple Choices", JObj([items |-> JArr(<<>>)])),
     HttpReply(500, "500 Internal Server Error", JObj(EmptyMap)),
     HttpReply(299, "299 Status", JObj([items |-> JArr(<<>>)]))}
    \cup {HttpReply(200, "200 OK", b) : b \in Bodies}

\* ------------------------------------------------------------------- state
VARIABLES
    pc,        \* where main() is: "start", "scan", "upstream", "write",
               \* "exited" (main returned), "fatal" (log.Fatalf)
    envToken,  \* the value of RAINDROP_TOKEN in the environment
    client,    \* raindropClient
    schemas,   \* schemas
    nread,     \* number of lines scanner.Scan() has returned
    line,      \* the line of the current iteration
    req,       \* req of the current iteration
    resp,      \* resp of the current iteration
    call,      \* the upstream request of the current iteration, if any
    ncalls,    \* number of upstream requests issued in the current iteration
    reply,     \* what the upstream request of the current iteration returned
    failedAt,  \* history: the line of the latest upstream failure (0: none)
    reqs,      \* history: the decoded requests, <<line number, id>>
    enc,       \* history: the calls of writer.Encode and whether each wrote
    out        \* the lines on standard output

vars == <<pc, envToken, client, schemas, nread, line, req, resp, call,
          ncalls, reply, failedAt, reqs, enc, out>>

NoClient == [nil |-> TRUE]
NoLine == [t |-> "none"]
NoReply == [k |-> "none"]
ZeroRequest == UnmarshalRequest(JNull).val
ZeroResponse ==
    [JSONRPC |-> "", ID |-> 0, Result |-> Absent, Error |-> NilError]

Init ==
    /\ pc = "start"
    /\ envToken \in {"", "test-token"}
    /\ client = NoClient
    /\ schemas = EmptyMap
    /\ nread = 0
    /\ line = NoLine
    /\ req = ZeroRequest
    /\ resp = ZeroResponse
    /\ call = NoCall
    /\ ncalls = 0
    /\ reply = NoReply
    /\ failedAt = 0
    /\ reqs = <<>>
    /\ enc = <<>>
    /\ out = <<>>

\* Mutant of NewRaindropClient: an empty token is accepted.
NewRaindropClientAnyToken(token) ==
    [err |-> NoErr, val |-> [nil |-> FALSE, Token |-> token]]

\* NewRaindropClient(): (client, err).
NewRaindropClient(token) ==
    IF token = "" THEN [err |-> <<L("RAINDROP_TOKEN is not set")>>,
                        val |-> NoClient]
    ELSE [err |-> NoErr, val |-> [nil |-> FALSE, Token |-> token]]

\* main() up to the loop: the client, or a fatal exit, and the schemas.
Start ==
    /\ pc = "start"
    /\ LET c == NewRaindropClient(envToken)
       IN IF c.err # NoErr
          THEN /\ pc' = "fatal"
               /\ UNCHANGED <<client, schemas>>
          ELSE /\ pc' = "scan"
               /\ client' = c.val
               /\ schemas' = createJSONSchema
    /\ UNCHANGED <<envToken, nread, line, req, resp, call, ncalls, reply,
                   failedAt, reqs, enc, out>>

\* The headers MakeRequest sets on the request it sends.
SendRequest(c, cl) ==
    [c EXCEPT !.auth = <<L("Bearer "), V(cl.Token)>>,
              !.contentType = "application/json"]

\* Mutant of SkipLine: a line that does not decode ends the process.
SkipLineFatal ==
    /\ pc' = "fatal"
    /\ UNCHANGED <<line, req, resp, call, ncalls, reqs>>

\* The line did not decode: the error is logged and the loop goes on to the
\* next line (continue).
SkipLine ==
    /\ pc' = "scan"
    /\ UNCHANGED <<line, req, resp, call, ncalls, reqs>>

\* Mutant of AtLoopHead: the loop reads on while the upstream request of
\* the line before is still out.
AtLoopHeadOrCalling == pc \in {"scan", "upstream"}

\* The loop is at scanner.Scan(): the iteration before, if any, has run to
\* its end.
AtLoopHead == pc = "scan"

\* Mutant of Registry: the descriptors are handed out to the first request
\* only.
RegistryUsedOnce == IF reqs = <<>> THEN schemas ELSE EmptyMap

\* The schema registry as the loop reads it: built once before the loop and
\* never assigned again.
Registry == schemas

\* scanner.Scan() returns a line: decode it and dispatch, up to the response
\* or to the upstream request.
Scan(l) ==
    /\ AtLoopHead
    /\ nread < MaxLines
    /\ nread' = nread + 1
    /\ LET d == UnmarshalRequest(l)
       IN IF d.err # NoErr
          THEN SkipLine
          ELSE LET r == Dispatch(d.val, Registry)
               IN /\ line' = l
                  /\ req' = d.val
                  /\ resp' = r.resp
                  /\ reqs' = Append(reqs, [line |-> nread + 1,
                                           id |-> d.val.ID])
                  /\ IF r.call = NoCall
                     THEN /\ pc' = "write"
                          /\ UNCHANGED <<call, ncalls>>
                     ELSE /\ pc' = "upstream"
                          /\ call' = SendRequest(r.call, client)
                          /\ ncalls' = ncalls + 1
    /\ UNCHANGED <<envToken, client, schemas, reply, failedAt, enc, out>>

\* The upstream request returns: the handler finishes the response.
UpstreamReply(r) ==
    /\ pc = "upstream"
    /\ reply' = r
    /\ failedAt' = IF MakeRequest(r).err # NoErr THEN nread ELSE failedAt
    /\ resp' = IF call.tool = "create-bookmark"
               THEN CreateBookmarkDone(resp, r)
               ELSE SearchBookmarksDone(resp, r)
    /\ pc' = "write"
    /\ UNCHANGED <<envToken, client, schemas, nread, line, req, call,
                   ncalls, reqs, enc, out>>

\* Mutant of Emit: the line is put in front of the earlier ones.
EmitFirst(o, entry) == <<entry>> \o o

\* Mutant of Emit: the line is written twice.
EmitTwice(o, entry) == Append(Append(o, entry), entry)

\* One more line on standard output.
Emit(o, entry) == Append(o, entry)

\* What standard output holds of a response line: the line number of its
\* request, its id and the keys of its JSON object.
OutLine(n, doc) ==
    [line |-> n, id |-> Field(doc, "id").n, keys |-> DOMAIN doc.m]

\* Mutant of AfterEncode: a failed write ends the process.
AfterEncodeFatal(ok) == IF ok THEN "scan" ELSE "fatal"

\* Where the loop goes after writer.Encode(resp): a failure is logged and
\* nothing else, so to the next scanner.Scan() either way.
AfterEncode(ok) == "scan"

\* writer.Encode(resp): the line is written, or the write fails and the
\* failure is logged; either way the iteration ends.
Write(ok) ==
    /\ pc = "write"
    /\ enc' = Append(enc, [line |-> nread, id |-> resp.ID, ok |-> ok])
    /\ out' = IF ok THEN Emit(out, OutLine(nread, EncodeResponse(resp)))
              ELSE out
    /\ pc' = AfterEncode(ok)
    /\ line' = NoLine
    /\ req' = ZeroRequest
    /\ resp' = ZeroResponse
    /\ call' = NoCall
    /\ ncalls' = 0
    /\ reply' = NoReply
    /\ UNCHANGED <<envToken, client, schemas, nread, failedAt, reqs>>

\* scanner.Scan() returns false at end of input: main returns.
Eof ==
    /\ AtLoopHead
    /\ pc' = "exited"
    /\ UNCHANGED <<envToken, client, schemas, nread, line, req, resp, call,
                   ncalls, reply, failedAt, reqs, enc, out>>

\* scanner.Scan() returns false on a read error (a line longer than the
\* scanner's buffer included): log.Fatalf.
ReadError ==
    /\ AtLoopHead
    /\ pc' = "fatal"
    /\ UNCHANGED <<envToken, client, schemas, nread, line, req, resp, call,
                   ncalls, reply, failedAt, reqs, enc, out>>

Next ==
    \/ Start
    \/ \E l \in Lines : Scan(l)
    \/ \E r \in Replies : UpstreamReply(r)
    \/ \E ok \in BOOLEAN : Write(ok)
    \/ Eof
    \/ ReadError

Spec == Init /\ [][Next]_vars

\* The program runs on: startup completes, the scanner returns (a line, end
\* of input or an error), every upstream request returns, and every encode
\* returns.
FairSpec ==
    /\ Spec
    /\ WF_vars(Start)
    /\ WF_vars((\E l \in Lines : Scan(l)) \/ Eof \/ ReadError)
    /\ WF_vars(\E r \in Replies : UpstreamReply(r))
    /\ WF_vars(\E ok \in BOOLEAN : Write(ok))

\* ------------------------------------------------------------------ claims
\* Line k has been through its whole iteration of the loop.
Handled(k) == k < nread \/ (k = nread /\ pc \in {"scan", "exited", "fatal"})

\* The positions of line k's entries in a history.
At(h, k) == {j \in 1..Len(h) : h[j].line = k}

\* The numbers of the lines that decoded as a Request envelope.
DecodedLines == {reqs[i].line : i \in 1..Len(reqs)}

\* C1 as stated: every input line that decodes as a Request envelope
\* produces exactly one output line, and that line carries the id of the
\* request.
C1_OneOutputLinePerRequest ==
    \A i \in 1..Len(reqs) :
        Handled(reqs[i].line) =>
            /\ Cardinality(At(out, reqs[i].line)) = 1
            /\ \A j \in At(out, reqs[i].line) : out[j].id = reqs[i].id

\* C1 amended: every input line that decodes as a Request envelope has its
\* response encoded exactly once, with the id of the request; it produces
\* exactly one output line, carrying that id, when the write succeeds and no
\* output line when the write fails.
C1_OneResponsePerRequest ==
    \A i \in 1..Len(reqs) :
        LET k == reqs[i].line
        IN Handled(k) =>
              /\ Cardinality(At(enc, k)) = 1
              /\ \A j \in At(enc, k) :
                    /\ enc[j].id = reqs[i].id
                    /\ Cardinality(At(out, k)) = (IF enc[j].ok THEN 1 ELSE 0)
              /\ \A j \in At(out, k) : out[j].id = reqs[i].id

\* A request with id 1 was answered on standard output and the write of
\* another response failed.
C1_Witness ==
    /\ pc = "scan"
    /\ \E i \in 1..Len(reqs) :
          reqs[i].id = 1 /\ \E j \in At(out, reqs[i].line) : out[j].id = 1
    /\ \E j \in 1..Len(enc) : ~enc[j].ok

\* C2: response lines are written in the order in which their requests were
\* read, and one at a time: the response of a request is encoded before the
\* next line is read, so no response waits while another line is read.
C2_ResponsesInRequestOrder ==
    /\ \A j, k \in 1..Len(out) : j < k => out[j].line < out[k].line
    /\ \A j, k \in 1..Len(enc) : j < k => enc[j].line < enc[k].line
    /\ Len(enc) <= Len(reqs)
    /\ Len(reqs) <= Len(enc) + 1
    /\ pc \in {"scan", "exited"} => Len(enc) = Len(reqs)
    /\ \A j \in 1..Len(enc) : enc[j].line = reqs[j].line

\* Two requests with different ids were answered, the first one first.
C2_Witness ==
    /\ Len(out) = 2
    /\ out[1].id # out[2].id
    /\ reqs[1].id = out[1].id
    /\ reqs[2].id = out[2].id

\* C3: every response envelope holds exactly one of a result and an error,
\* on every branch of the dispatch, both as built and as written.
C3_ResultXorError ==
    /\ pc = "write" =>
          /\ (resp.Result.t # "absent") # (~resp.Error.nil)
          /\ ("result" \in DOMAIN EncodeResponse(resp).m)
                # ("error" \in DOMAIN EncodeResponse(resp).m)
    /\ \A j \in 1..Len(out) :
          ("result" \in out[j].keys) # ("error" \in out[j].keys)

\* A success and an error were both written.
C3_Witness ==
    \E j, k \in 1..Len(out) :
        /\ out[j].keys = {"jsonrpc", "id", "result"}
        /\ out[k].keys = {"jsonrpc", "id", "error"}

\* C4: a line that does not decode produces no output line (and no response
\* at all) and leaves the loop reading; the decodable lines after it are
\* answered like any other.
C4_UndecodableLineSkipped ==
    /\ [](\A k \in 1..nread :
            k \notin DecodedLines => (At(out, k) = {} /\ At(enc, k) = {}))
    /\ [][(pc = "scan" /\ nread' = nread + 1 /\ reqs' = reqs) =>
             (pc' = "scan" /\ out' = out /\ enc' = enc)]_vars
    /\ [](\A i \in 1..Len(reqs) :
            LET k == reqs[i].line
            IN (Handled(k) /\ \E u \in 1..k : u \notin DecodedLines) =>
                  /\ Cardinality(At(enc, k)) = 1
                  /\ \A j \in At(enc, k) :
                        Cardinality(At(out, k)) = (IF enc[j].ok THEN 1 ELSE 0))

\* The first line did not decode, the second one did and was answered.
C4_Witness ==
    /\ nread = 2
    /\ DecodedLines = {2}
    /\ pc = "scan"
    /\ At(out, 2) # {}
    /\ At(out, 1) = {}

\* What the current line asks for, read from the line itself.
LineMethod == FieldOf(line, "method")
LineParams == FieldOf(line, "params")
LineToolName == FieldOf(LineParams, "name")
LineArguments == FieldOf(LineParams, "arguments")

\* A request is being handled: its line decoded and its response is not yet
\* encoded.
InProgress == pc \in {"upstream", "write"}

\* C5: an mcp.listTools request, whatever its params and whatever came
\* before it, is answered without any upstream call by a success whose
\* tools are exactly create-bookmark and search-bookmarks, each with a
\* non-empty inputSchema.
C5_ListToolsAnswer ==
    (InProgress /\ LineMethod = JStr("mcp.listTools")) =>
        /\ pc = "write"
        /\ ncalls = 0
        /\ call = NoCall
        /\ resp.Error.nil
        /\ LET tools == FieldOf(resp.Result, "tools")
           IN /\ tools.t = "arr"
              /\ Len(tools.a) = 2
              /\ {Field(tools.a[i], "name") : i \in 1..Len(tools.a)}
                    = {JStr("create-bookmark"), JStr("search-bookmarks")}
              /\ \A i \in 1..Len(tools.a) :
                    LET sc == Field(tools.a[i], "inputSchema")
                    IN sc.t = "obj" /\ DOMAIN sc.m # {}

\* An mcp.listTools request with params is being answered after an earlier
\* request went through the loop.
C5_Witness ==
    /\ pc = "write"
    /\ LineMethod = JStr("mcp.listTools")
    /\ LineParams = JStr("x")
    /\ Len(enc) = 1
    /\ resp.Result.t = "obj"

\* The inner call-request of the line decodes: params is null, or an object
\* whose name, if any, is a string.
InnerDecodes ==
    \/ LineParams.t = "null"
    \/ LineParams.t = "obj" /\ LineToolName.t \in {"absent", "null", "str"}

\* The tool name the line asks for (empty when it gives none).
RequestedName == IF LineToolName.t = "str" THEN LineToolName.s ELSE ""

\* C6: an mcp.callTool request whose inner call-request decodes and whose
\* tool name is neither create-bookmark nor search-bookmarks is answered,
\* without any upstream call, by an error with code -32601 whose message
\* includes the requested name.
C6_UnknownToolAnswer ==
    (/\ InProgress
     /\ LineMethod = JStr("mcp.callTool")
     /\ InnerDecodes
     /\ RequestedName \notin {"create-bookmark", "search-bookmarks"}) =>
        /\ pc = "write"
        /\ ncalls = 0
        /\ call = NoCall
        /\ resp.Result = Absent
        /\ ~resp.Error.nil
        /\ resp.Error.Code = -32601
        /\ \E i \in 1..Len(resp.Error.Message) :
              resp.Error.Message[i] = V(RequestedName)

\* The answer to a call of the tool delete-bookmark is about to be written.
C6_Witness ==
    /\ pc = "write"
    /\ LineMethod = JStr("mcp.callTool")
    /\ LineToolName = JStr("delete-bookmark")
    /\ resp.Error = ErrorResponse(-32601, <<L("Unknown tool: "),
                                           V("delete-bookmark")>>)

\* C7: a request whose method is anything but mcp.listTools and
\* mcp.callTool, an empty or missing method included, is answered by an
\* error with code -32601.
C7_MethodNotFoundAnswer ==
    (InProgress
     /\ LineMethod \notin {JStr("mcp.listTools"), JStr("mcp.callTool")}) =>
        /\ pc = "write"
        /\ resp.Result = Absent
        /\ ~resp.Error.nil
        /\ resp.Error.Code = -32601

\* A line with no method at all is being answered.
C7_Witness ==
    /\ pc = "write"
    /\ line.t = "obj"
    /\ LineMethod = Absent
    /\ resp.Error.Code = -32601

\* The required field of the tool the line calls is empty or absent.
RequiredFieldMissing ==
    /\ LineMethod = JStr("mcp.callTool")
    /\ \/ /\ LineToolName = JStr("create-bookmark")
          /\ FieldOf(LineArguments, "url") \in {Absent, JStr("")}
       \/ /\ LineToolName = JStr("search-bookmarks")
          /\ FieldOf(LineArguments, "query") \in {Absent, JStr("")}

\* C8: a tool call whose required field (url of create-bookmark, query of
\* search-bookmarks) is empty or absent is answered by an error with code
\* -32602, and no upstream request is made for it.
C8_RequiredFieldChecked ==
    (InProgress /\ RequiredFieldMissing) =>
        /\ pc = "write"
        /\ ncalls = 0
        /\ call = NoCall
        /\ reply = NoReply
        /\ resp.Result = Absent
        /\ ~resp.Error.nil
        /\ resp.Error.Code = -32602

\* A create-bookmark call with an empty url is being answered.
C8_Witness ==
    /\ pc = "write"
    /\ LineToolName = JStr("create-bookmark")
    /\ FieldOf(LineArguments, "url") = JStr("")
    /\ resp.Error = ErrorResponse(-32602, <<L("URL is required")>>)
    /\ ncalls = 0

\* An upstream request of create-bookmark has been issued in this iteration.
CreateIssued == InProgress /\ call # NoCall /\ call.tool = "create-bookmark"

\* C9: every upstream request of create-bookmark carries a collection
\* reference whose $id is the collection argument when one is given and 0
\* when the argument is 0 or absent; the collection is never left out.
C9_CollectionAlwaysSent ==
    CreateIssued =>
        LET a == FieldOf(LineArguments, "collection")
            c == Field(call.body, "collection")
        IN /\ "collection" \in DOMAIN call.body.m
           /\ c.t = "obj"
           /\ DOMAIN c.m = {"$id"}
           /\ c.m["$id"] = (IF a.t = "num" THEN JNum(a.n) ELSE JNum(0))

\* A create-bookmark request without a collection argument is on its way
\* upstream.
C9_Witness ==
    /\ pc = "upstream"
    /\ call.tool = "create-bookmark"
    /\ FieldOf(LineArguments, "url") = ExampleURL
    /\ FieldOf(LineArguments, "collection") = Absent
    /\ Field(Field(call.body, "collection"), "$id") = JNum(0)

\* The number of item blocks of a result text: each block ends with the
\* literal "\n---".
Blocks(text) == Cardinality({i \in 1..Len(text) : text[i] = L("\n---")})

\* The text of a tool result.
ResultText(result) == Field(Field(result, "content").a[1], "text").s

\* The upstream reply to the search of this iteration is a 2xx whose body
\* holds an item list.
SearchGotItems ==
    /\ pc = "write"
    /\ call # NoCall
    /\ call.tool = "search-bookmarks"
    /\ reply.k = "http"
    /\ reply.code >= 200
    /\ reply.code < 300
    /\ reply.body.t = "obj"
    /\ Field(reply.body, "items").t = "arr"

\* C10 as stated: for search-bookmarks an empty item list gives exactly the
\* text "No bookmarks found matching your search.", and a list of n >= 1
\* items gives the header "Found n bookmarks:" followed by exactly n item
\* blocks, so that the count of the header equals the number of blocks.
C10_HeaderCountsBlocks ==
    SearchGotItems =>
        LET n == Len(Field(reply.body, "items").a)
        IN /\ resp.Error.nil
           /\ resp.Result.t = "obj"
           /\ LET text == ResultText(resp.Result)
              IN IF n = 0
                 THEN text = <<L("No bookmarks found matching your search.")>>
                 ELSE /\ Len(text) >= 3
                      /\ SubSeq(text, 1, 3)
                            = <<L("Found "), D(n), L(" bookmarks:")>>
                      /\ Blocks(text) = n

\* The upstream call failed: no connection, a status outside 2xx, or a 2xx
\* whose body is no JSON object (null decodes to the empty map).
ReplyFailed(r) ==
    \/ r.k = "neterr"
    \/ /\ r.k = "http"
       /\ \/ r.code < 200
          \/ r.code >= 300
          \/ r.body.t \notin {"obj", "null"}

\* The upstream call of this iteration has returned with a failure.
UpstreamFailedNow == pc = "write" /\ reply # NoReply /\ ReplyFailed(reply)

\* C11: when the upstream call of a tool handler fails, the response is an
\* error with code -32603 whose message carries the failure text (the status
\* text for a status outside 2xx); the process goes on to the next line, and
\* the decodable lines after the failure are answered like any other.
C11_UpstreamFailureAnswer ==
    /\ [](UpstreamFailedNow =>
            /\ failedAt = nread
            /\ resp.Result = Absent
            /\ ~resp.Error.nil
            /\ resp.Error.Code = -32603
            /\ Len(resp.Error.Message) >= 2
            /\ resp.Error.Message[1] = L("Internal error: ")
            /\ (reply.k = "http" /\ (reply.code < 200 \/ reply.code >= 300))
                  => resp.Error.Message[3] = V(reply.status))
    /\ [][UpstreamFailedNow => (pc' = "scan" /\ Len(enc') = Len(enc) + 1)]_vars
    /\ [](\A i \in 1..Len(reqs) :
            LET k == reqs[i].line
            IN (failedAt > 0 /\ k > failedAt /\ Handled(k)) =>
                  /\ Cardinality(At(enc, k)) = 1
                  /\ \A j \in At(enc, k) :
                        /\ enc[j].id = reqs[i].id
                        /\ Cardinality(At(out, k))
                              = (IF enc[j].ok THEN 1 ELSE 0))

\* The upstream call of line 1 failed, and line 2 was read and answered.
C11_Witness ==
    /\ failedAt = 1
    /\ nread = 2
    /\ pc = "scan"
    /\ At(out, 1) # {}
    /\ At(out, 2) # {}
    /\ \E j \in At(out, 1) : "error" \in out[j].keys

\* C12: with RAINDROP_TOKEN absent or empty the construction of the client
\* fails and the process ends before any line is read: nothing is
\* dispatched, called upstream or written; with a token that is not empty
\* the client holds exactly that token.
C12_TokenRequired ==
    /\ envToken = "" =>
          /\ pc \in {"start", "fatal"}
          /\ client = NoClient
          /\ nread = 0
          /\ reqs = <<>>
          /\ enc = <<>>
          /\ out = <<>>
          /\ ncalls = 0
          /\ call = NoCall
    /\ (envToken # "" /\ pc # "start") =>
          /\ ~client.nil
          /\ client.Token = envToken

\* The process has ended at startup for want of a token.
C12_Witness ==
    /\ envToken = ""
    /\ pc = "fatal"
    /\ client = NoClient

\* C13 as stated: every input line that is read produces exactly one output
\* line.
C13_OneOutputLinePerLine ==
    \A k \in 1..nread : Handled(k) => Cardinality(At(out, k)) = 1

\* C13 amended: every input line that is read produces at most one output
\* line: exactly one when the line decodes as a Request envelope and the
\* write of its response succeeds, none when the line does not decode or the
\* write fails.
C13_AtMostOneOutputLine ==
    /\ Len(out) <= nread
    /\ \A j \in 1..Len(out) : out[j].line \in 1..nread
    /\ \A k \in 1..nread :
          Handled(k) =>
              Cardinality(At(out, k))
                  = (IF k \in DecodedLines /\ \E j \in At(enc, k) : enc[j].ok
                     THEN 1 ELSE 0)

\* Two lines were read: the first got its output line, the second did not
\* decode and got none.
C13_Witness ==
    /\ nread = 2
    /\ pc = "scan"
    /\ DecodedLines = {1}
    /\ Cardinality(At(out, 1)) = 1
    /\ At(out, 2) = {}

\* A value that does not decode into a string field, an int field, a field
\* holding a list of strings.
BadString(v) == v.t \notin {"absent", "null", "str"}
BadInt(v) == v.t \notin {"absent", "null", "num"}
BadStrings(v) ==
    \/ v.t \notin {"absent", "null", "arr"}
    \/ v.t = "arr" /\ \E i \in 1..Len(v.a) : v.a[i].t \notin {"null", "str"}

\* The arguments of the line do not decode into the argument structure of the
\* tool it names.
ArgumentsUndecodable ==
    /\ InnerDecodes
    /\ LET a == LineArguments
       IN \/ /\ LineToolName = JStr("create-bookmark")
             /\ \/ a.t \notin {"null", "obj"}
                \/ BadString(FieldOf(a, "url"))
                \/ BadString(FieldOf(a, "title"))
                \/ BadStrings(FieldOf(a, "tags"))
                \/ BadInt(FieldOf(a, "collection"))
          \/ /\ LineToolName = JStr("search-bookmarks")
             /\ \/ a.t \notin {"null", "obj"}
                \/ BadString(FieldOf(a, "query"))
                \/ BadStrings(FieldOf(a, "tags"))

\* C14: an mcp.callTool request whose params do not decode as an inner
\* call-request, or whose arguments do not decode into the argument structure
\* of the tool it names, is answered by an error with code -32602 that
\* reports the decode, before any check of the handler and without any
\* upstream call.
C14_UndecodableCallAnswer ==
    (/\ InProgress
     /\ LineMethod = JStr("mcp.callTool")
     /\ (~InnerDecodes \/ ArgumentsUndecodable)) =>
        /\ pc = "write"
        /\ ncalls = 0
        /\ call = NoCall
        /\ reply = NoReply
        /\ resp.Result = Absent
        /\ ~resp.Error.nil
        /\ resp.Error.Code = -32602
        /\ resp.Error.Message[1]
              = (IF InnerDecodes THEN L("Invalid arguments: ")
                 ELSE L("Invalid params: "))

\* A create-bookmark call with a good url and a collection given as a string
\* is being answered.
C14_Witness ==
    /\ pc = "write"
    /\ LineToolName = JStr("create-bookmark")
    /\ FieldOf(LineArguments, "url") = ExampleURL
    /\ FieldOf(LineArguments, "collection") = JStr("5")
    /\ ~resp.Error.nil
    /\ resp.Error.Code = -32602
    /\ ncalls = 0

\* The upstream reply to the search of this iteration is a 2xx whose body
\* decodes into a map.
SearchSucceeded ==
    /\ pc = "write"
    /\ call # NoCall
    /\ call.tool = "search-bookmarks"
    /\ reply.k = "http"
    /\ reply.code >= 200
    /\ reply.code < 300
    /\ reply.body.t \in {"obj", "null"}

\* The text that reports a search without results.
NoResultsText == <<L("No bookmarks found matching your search.")>>

\* C15: for search-bookmarks an upstream success payload without an item
\* list (no items field, or one that is not a list) gives the error -32603
\* "Unable to parse results"; the text of a search without results is given
\* only when an item list is there and empty.
C15_MissingItemsIsError ==
    /\ (SearchSucceeded /\ FieldOf(reply.body, "items").t # "arr") =>
          /\ resp.Result = Absent
          /\ resp.Error = ErrorResponse(-32603,
                                        <<L("Unable to parse results")>>)
    /\ (/\ pc = "write"
        /\ resp.Error.nil
        /\ FieldOf(resp.Result, "content").t = "arr"
        /\ ResultText(resp.Result) = NoResultsText) =>
          /\ SearchGotItems
          /\ Field(reply.body, "items").a = <<>>

\* A search was answered upstream by 200 with the empty object.
C15_Witness ==
    /\ SearchSucceeded
    /\ reply.code = 200
    /\ reply.body = JObj(EmptyMap)
    /\ ~resp.Error.nil
    /\ resp.Error.Code = -32603

\* C16: the loop handles one line completely before it reads the next: at
\* most one request is in progress, a line is read only when nothing of the
\* lines before it is left to do (their upstream calls have returned and
\* their responses are encoded), and while an upstream call is out nothing
\* is read and nothing is written: the next step is the return of the call.
C16_OneLineAtATime ==
    /\ [](/\ InProgress => Len(reqs) = Len(enc) + 1
          /\ ~InProgress => Len(reqs) = Len(enc)
          /\ pc = "upstream" => (call # NoCall /\ reply = NoReply))
    /\ [][nread' # nread =>
            /\ pc = "scan"
            /\ nread' = nread + 1
            /\ call = NoCall
            /\ reply = NoReply
            /\ Len(enc) = Len(reqs)
            /\ enc' = enc
            /\ out' = out]_vars
    /\ [][pc = "upstream" =>
            /\ pc' = "write"
            /\ nread' = nread
            /\ reqs' = reqs
            /\ enc' = enc
            /\ out' = out]_vars

\* The upstream call of line 2 is out, and line 1 has been answered.
C16_Witness ==
    /\ pc = "upstream"
    /\ nread = 2
    /\ Len(reqs) = 2
    /\ Len(enc) = 1
    /\ Len(out) = 1

\* C17: a failure to encode or write a response line does not end the loop:
\* nothing is written for that response, the loop goes to the next read, and
\* every request read after the failure is dispatched and has its response
\* encoded.
C17_WriteFailureGoesOn ==
    /\ [][(/\ pc = "write"
           /\ Len(enc') = Len(enc) + 1
           /\ ~enc'[Len(enc')].ok) =>
              /\ pc' = "scan"
              /\ out' = out
              /\ nread' = nread
              /\ reqs' = reqs]_vars
    /\ [](\A j \in 1..Len(enc) :
            ~enc[j].ok =>
                \A i \in 1..Len(reqs) :
                    (reqs[i].line > enc[j].line /\ Handled(reqs[i].line)) =>
                        Cardinality(At(enc, reqs[i].line)) = 1)

\* The write of the first response failed, and the second request was
\* answered on standard output.
C17_Witness ==
    /\ Len(enc) = 2
    /\ ~enc[1].ok
    /\ enc[2].ok
    /\ Len(out) = 1
    /\ out[1].line = enc[2].line

\* The process has stopped.
Terminated == pc \in {"exited", "fatal"}

\* C18: with a finite input and upstream calls that return, the process
\* stops in the end; once the loop is running it stops only at a read that
\* gives no line (end of input or a read error), with no request left in
\* progress; after the stop nothing is dispatched and nothing is written; a
\* request in progress, whatever its method, arguments or upstream outcome,
\* never stops the process.
C18_LoopEndsAtEndOfInput ==
    /\ <>Terminated
    /\ [][(~Terminated /\ Terminated' /\ pc # "start") =>
            /\ pc = "scan"
            /\ nread' = nread
            /\ reqs' = reqs
            /\ Len(enc) = Len(reqs)]_vars
    /\ [][Terminated => UNCHANGED vars]_vars
    /\ [][InProgress => ~Terminated']_vars
    /\ [][pc = "write" => pc' = "scan"]_vars
    /\ [](pc = "exited" => \A k \in 1..nread : Handled(k))

\* The process has returned at the end of an input of two lines, the first
\* of which saw its upstream call fail.
C18_Witness ==
    /\ pc = "exited"
    /\ nread = 2
    /\ failedAt = 1
    /\ Len(enc) = 2

\* The line is a call of one of the two tools with arguments that decode and
\* a required field that is not empty.
ValidToolCall ==
    /\ LineMethod = JStr("mcp.callTool")
    /\ InnerDecodes
    /\ ~ArgumentsUndecodable
    /\ \/ /\ LineToolName = JStr("create-bookmark")
          /\ FieldOf(LineArguments, "url").t = "str"
          /\ FieldOf(LineArguments, "url").s # ""
       \/ /\ LineToolName = JStr("search-bookmarks")
          /\ FieldOf(LineArguments, "query").t = "str"
          /\ FieldOf(LineArguments, "query").s # ""

\* C19: a request makes at most one upstream call, and a call that failed
\* is not made again: a create-bookmark or search-bookmarks call with valid
\* arguments makes exactly one, and every other request makes none.
C19_OneUpstreamCall ==
    /\ ncalls \in {0, 1}
    /\ ~InProgress => ncalls = 0
    /\ pc = "upstream" => (ncalls = 1 /\ ValidToolCall)
    /\ pc = "write" =>
          /\ ncalls = (IF ValidToolCall THEN 1 ELSE 0)
          /\ ncalls = 1 <=> reply # NoReply
          /\ ncalls = 1 <=> call # NoCall

\* A search whose one upstream call failed is being answered.
C19_Witness ==
    /\ pc = "write"
    /\ call # NoCall
    /\ call.tool = "search-bookmarks"
    /\ ReplyFailed(reply)
    /\ ncalls = 1

\* What the dispatch of a line gives, computed from the line alone.
Dispatched(l) == Dispatch(UnmarshalRequest(l).val, createJSONSchema)

\* The response the program gives to a line and to the upstream reply to the
\* call of that line, computed from these two alone.
Respond(l, r) ==
    LET d == Dispatched(l)
    IN IF d.call = NoCall THEN d.resp
       ELSE IF d.call.tool = "create-bookmark"
       THEN CreateBookmarkDone(d.resp, r)
       ELSE SearchBookmarksDone(d.resp, r)

\* C20: request handling is stateless: no step after startup changes the
\* token, the client or the tool descriptors, and the response of a request
\* is a function of its line and of the upstream reply to its own call, so
\* the same line with the same reply gets the same response wherever it
\* comes in a run.
C20_Stateless ==
    /\ [][pc # "start" =>
            /\ envToken' = envToken
            /\ client' = client
            /\ schemas' = schemas]_vars
    /\ [](pc = "write" => resp = Respond(line, reply))
    /\ [](pc = "upstream" =>
            /\ resp = Dispatched(line).resp
            /\ call = SendRequest(Dispatched(line).call,
                                  [nil |-> FALSE, Token |-> envToken]))

\* A listTools request is being answered after a request whose upstream call
\* failed and whose write failed too.
C20_Witness ==
    /\ pc = "write"
    /\ nread = 2
    /\ failedAt = 1
    /\ Len(enc) = 1
    /\ ~enc[1].ok
    /\ LineMethod = JStr("mcp.listTools")
    /\ resp.Error.nil

\* The id the current line carries, read from the line itself.
LineId == FieldOf(line, "id")

\* The line with its id set to 0.
WithIdZero(l) ==
    JObj(("id" :> JNum(0)) @@ (IF l.t = "obj" THEN l.m ELSE EmptyMap))

\* The lines offered to the scanner whose id is there and is neither an
\* integer nor null.
BadIdLines ==
    {l \in Lines : l.t = "obj" /\ Field(l, "id").t \notin
                                      {"absent", "null", "num"}}

\* C21 as stated: a line without an id field is answered with id 0, and a
\* line whose id is not an integer is not decoded, so that every request in
\* progress either has no id field or has an integer id.
C21_NonIntegerIdUndecodable ==
    InProgress =>
        /\ LineId.t \in {"absent", "num"}
        /\ LineId.t = "absent" => resp.ID = 0

\* C21 amended: a line that is valid JSON for the envelope and has no id
\* field, or the id null, is decoded and its response has the id 0, being
\* the very response a request with the id 0 and otherwise the same line
\* gets; a line whose id is there and is neither an integer nor null does
\* not decode, so no request in progress, and no response, comes from it.
C21_MissingIdIsZero ==
    /\ InProgress => LineId.t \in {"absent", "null", "num"}
    /\ (InProgress /\ LineId.t \in {"absent", "null"}) =>
          /\ req.ID = 0
          /\ resp.ID = 0
          /\ Field(EncodeResponse(resp), "id") = JNum(0)
    /\ (pc = "write" /\ LineId.t \in {"absent", "null"}) =>
          resp = Respond(WithIdZero(line), reply)
    /\ (InProgress /\ LineId.t = "num") => resp.ID = LineId.n
    /\ \A l \in BadIdLines : UnmarshalRequest(l).err # NoErr

\* A listTools line with the id null is being answered with the id 0, after
\* a line that did not decode.
C21_Witness ==
    /\ pc = "write"
    /\ nread = 2
    /\ DecodedLines = {2}
    /\ LineId = JNull
    /\ LineMethod = JStr("mcp.listTools")
    /\ resp.ID = 0
    /\ resp.Error.nil

====
